---- MODULE Spec2Model ----
(***************************************************************************)
(* Model of src/main.rs: the text analyzer analyze_text_fast, its baseline *)
(* analyze_text_slow, and the part of main that runs both on one text.     *)
(*                                                                         *)
(* A char is its Unicode code point, a str or String the sequence of its   *)
(* chars.  The modelled alphabet is                                        *)
(*    9 TAB, 10 LF, 32 SPACE   whitespace                                  *)
(*    44 ',', 49 '1'           neither alphabetic nor whitespace           *)
(*    65..90  'A'..'Z'         97..122 'a'..'z'                            *)
(*    201 'E acute' (upper)    233 'e acute' (lower), two bytes in UTF-8   *)
(***************************************************************************)
EXTENDS Integers, Sequences, FiniteSets

VARIABLES
    text,           \* the &str handed to the analyzers
    pc,             \* position of the control flow
    run,            \* 1 in the first call of analyze_text_fast, 2 in the second
    prev,           \* what the first call returned, as far as a caller can compare it
    pos,            \* chars of text consumed by the split_whitespace iterator
    word_freq,      \* HashMap<String, usize>
    char_count,
    max_len,
    heap,           \* BinaryHeap<Reverse<(usize, String)>>
    iter,           \* keys the running HashMap iterator has not yielded yet
    top_words,      \* Vec<(String, usize)>
    longest_heap,   \* BinaryHeap<Reverse<(usize, &str)>>
    stats_fast,     \* TextStats returned by analyze_text_fast
    slow_freq,      \* word_freq of analyze_text_slow
    slow_top,       \* top_words of analyze_text_slow
    slow_round,     \* rounds of the 0..10 loop of analyze_text_slow done
    stats_slow      \* TextStats returned by analyze_text_slow

vars == <<text, pc, run, prev, pos, word_freq, char_count, max_len, heap, iter,
          top_words, longest_heap, stats_fast, slow_freq, slow_top, slow_round,
          stats_slow>>

fastVars == <<pos, word_freq, char_count, max_len, heap, iter, top_words,
              longest_heap, stats_fast>>

slowVars == <<slow_freq, slow_top, slow_round, stats_slow>>

\* ------------------------------------------------------------------ bounds

\* Longest text of the exhaustive family of short texts.
MaxLen == 4

\* Most distinct words of a generated text.
MaxWords == 12

\* Most words of a generated text that tie with the rarest word.
MaxTie == 2

\* ------------------------------------------------------- program constants

TopK == 10

LongestK == 5

SlowRounds == 10

SlowTake == 5

\* --------------------------------------------------------------- std: char

is_whitespace(c) == c \in {9, 10, 32}

\* char::is_alphabetic is the Unicode Alphabetic property.
is_alphabetic(c) == c \in 65..90 \/ c \in 97..122 \/ c \in {201, 233}

\* char::to_ascii_lowercase maps 'A'..'Z' only.
to_ascii_lowercase(c) == IF c \in 65..90 THEN c + 32 ELSE c

\* str::to_lowercase is the Unicode lowercase mapping.
to_lowercase(c) == IF c \in 65..90 \/ c = 201 THEN c + 32 ELSE c

\* Bytes of one char in UTF-8.
len_utf8(c) == IF c < 128 THEN 1 ELSE IF c < 2048 THEN 2 ELSE IF c < 65536 THEN 3 ELSE 4

RECURSIVE str_len(_)
\* str::len, String::len: the length in bytes.
str_len(s) == IF s = <<>> THEN 0 ELSE len_utf8(Head(s)) + str_len(Tail(s))

RECURSIVE str_lt(_, _)
\* Ord of str and String: lexicographic by bytes, which for UTF-8 is
\* lexicographic by code point.
str_lt(s, t) ==
    IF t = <<>> THEN FALSE
    ELSE IF s = <<>> THEN TRUE
    ELSE IF Head(s) # Head(t) THEN Head(s) < Head(t)
    ELSE str_lt(Tail(s), Tail(t))

\* Ord of the tuples (usize, String) and (usize, &str).
tuple_lt(a, b) == a[1] < b[1] \/ (a[1] = b[1] /\ str_lt(a[2], b[2]))

Min(a, b) == IF a < b THEN a ELSE b

\* ------------------------------------------------- std: str::split_whitespace

RECURSIVE skip_whitespace(_, _)
\* First position after p that holds no whitespace, Len(s) + 1 if there is none.
skip_whitespace(s, p) ==
    IF p > Len(s) THEN p
    ELSE IF is_whitespace(s[p]) THEN skip_whitespace(s, p + 1)
    ELSE p

RECURSIVE token_end(_, _)
\* Last position of the run of non-whitespace chars that starts at p.
token_end(s, p) ==
    IF p + 1 > Len(s) THEN p
    ELSE IF is_whitespace(s[p + 1]) THEN p
    ELSE token_end(s, p + 1)

\* SplitWhitespace::next of an iterator that has consumed n chars of s:
\* the token and the chars consumed after it, or no token.
split_next(s, n) ==
    LET b == skip_whitespace(s, n + 1)
    IN  IF b > Len(s) THEN [some |-> FALSE, tok |-> <<>>, used |-> Len(s)]
        ELSE LET e == token_end(s, b)
             IN  [some |-> TRUE, tok |-> SubSeq(s, b, e), used |-> e]

RECURSIVE split_whitespace(_, _)
\* All tokens the iterator yields from n consumed chars on.
split_whitespace(s, n) ==
    LET r == split_next(s, n)
    IN  IF r.some THEN <<r.tok>> \o split_whitespace(s, r.used) ELSE <<>>

\* -------------------------------------------------------------- std: Vec

\* slice::sort_by with a comparator that orders by key, greatest first; keys[i]
\* is the key of v[i].  The sort is stable: elements with equal keys keep
\* their order.
sort_by_desc(v, keys) ==
    LET n == Len(v)
        rank(i) == Cardinality({j \in 1..n : keys[j] > keys[i]})
                   + Cardinality({j \in 1..i : keys[j] = keys[i]})
    IN  [r \in 1..n |-> v[CHOOSE i \in 1..n : rank(i) = r]]

\* ------------------------------------------------------- std: BinaryHeap
\* A BinaryHeap<Reverse<T>> is modelled by its contents; the entries of both
\* heaps of the program are pairwise different (they carry different keys of
\* word_freq), so the contents are a set.  push adds; pop removes the
\* greatest Reverse<T>, which is the least T.

heap_push(h, e) == h \cup {e}

\* heap_peek of a BinaryHeap<T>, the Reverse forgotten: the greatest T.
heap_peek_max(h) == CHOOSE e \in h : \A f \in h : ~tuple_lt(e, f)

heap_peek(h) == CHOOSE e \in h : \A f \in h : ~tuple_lt(f, e)

heap_pop(h) == h \ {heap_peek(h)}

\* All orders of the elements of S.
perms(S) ==
    LET P[T \in SUBSET S] ==
            IF T = {} THEN {<<>>}
            ELSE UNION {{<<x>> \o p : p \in P[T \ {x}]} : x \in T}
    IN  P[S]

\* BinaryHeap::into_iter yields the entries in arbitrary order.  The program
\* hands that order only to a stable sort by the entries' first component,
\* which keeps nothing of it but the relative order of the entries that agree
\* on the first component.  Every choice of these relative orders is
\* enumerated here, once: the order with the first components increasing.
into_iter_orders(h) ==
    LET O[S \in SUBSET h] ==
            IF S = {} THEN {<<>>}
            ELSE LET m == CHOOSE k \in {e[1] : e \in S} : \A e \in S : k <= e[1]
                     G == {e \in S : e[1] = m}
                 IN  {p \o r : p \in perms(G), r \in O[S \ G]}
    IN  O[h]

\* ------------------------------------------------------ analyze_text_fast

\* alpha_count without the is_alphabetic test: every char of the token.
alpha_count_all(word) == Len(word)

\* The chars of a token that the char-count loop counts.
alpha_count(word) == Len(SelectSeq(word, is_alphabetic))

\* clean_word: filter is_alphabetic, map to_ascii_lowercase, collect.
clean_word(word) ==
    LET kept == SelectSeq(word, is_alphabetic)
    IN  [i \in 1..Len(kept) |-> to_ascii_lowercase(kept[i])]

\* keep_word without the is_empty test.
keep_word_always(w) == TRUE

\* !clean_word.is_empty()
keep_word(w) == w # <<>>

\* count_insert with or_insert(1): a new word starts at 2.
count_insert_one(wf, w) ==
    IF w \in DOMAIN wf THEN [wf EXCEPT ![w] = @ + 1]
    ELSE [x \in DOMAIN wf \cup {w} |-> IF x = w THEN 1 + 1 ELSE wf[x]]

\* *word_freq.entry(w).or_insert(0) += 1
count_insert(wf, w) ==
    IF w \in DOMAIN wf THEN [wf EXCEPT ![w] = @ + 1]
    ELSE [x \in DOMAIN wf \cup {w} |-> IF x = w THEN 0 + 1 ELSE wf[x]]

\* top_entry with the key of the other heap: the length for the count.
top_entry_len(wf, w) == <<str_len(w), w>>

\* The entry pushed for a key of word_freq: Reverse((*count, word.clone())).
top_entry(wf, w) == <<wf[w], w>>

\* The entry pushed for a key of word_freq: Reverse((word.len(), word.as_str())).
longest_entry(w) == <<str_len(w), w>>

\* push_bounded that pops as soon as k are held.
push_bounded_ge(h, e, k) ==
    LET h1 == heap_push(h, e)
    IN  IF Cardinality(h1) >= k THEN heap_pop(h1) ELSE h1

\* push_bounded that drops the new entry once k are held.
push_bounded_first(h, e, k) == IF Cardinality(h) >= k THEN h ELSE heap_push(h, e)

\* One iteration of a selection loop: push, then pop if more than k are held.
push_bounded(h, e, k) ==
    LET h1 == heap_push(h, e)
    IN  IF Cardinality(h1) > k THEN heap_pop(h1) ELSE h1

\* |Reverse((count, word))| (word, count), collected, then sorted by .1 descending.
collect_top(order) ==
    LET v == [i \in 1..Len(order) |-> <<order[i][2], order[i][1]>>]
    IN  sort_by_desc(v, [i \in 1..Len(v) |-> v[i][2]])

\* |Reverse((_, word))| word.to_string(), collected, then sorted by len() descending.
collect_longest(order) ==
    LET v == [i \in 1..Len(order) |-> order[i][2]]
    IN  sort_by_desc(v, [i \in 1..Len(v) |-> str_len(v[i])])

EmptyMap == [w \in {} |-> 0]

NoStats == [word_count |-> 0, char_count |-> 0, top_words |-> <<>>, longest_words |-> <<>>]

\* What two calls on the same text can be compared on: the counts and the
\* sets of words of the two ranked sequences.
observed(st) ==
    [word_count |-> st.word_count,
     char_count |-> st.char_count,
     top_set |-> {st.top_words[i][1] : i \in 1..Len(st.top_words)},
     longest_set |-> {st.longest_words[i] : i \in 1..Len(st.longest_words)}]

\* The locals of analyze_text_fast at its entry.
FastEntry ==
    /\ pos = 0
    /\ word_freq = EmptyMap
    /\ char_count = 0
    /\ max_len = 0
    /\ heap = {}
    /\ iter = {}
    /\ top_words = <<>>
    /\ longest_heap = {}
    /\ stats_fast = NoStats

\* One iteration of the loop over text.split_whitespace().
ScanToken ==
    /\ pc = "scan"
    /\ \E r \in {split_next(text, pos)} :
        /\ r.some
        /\ pos' = r.used
        /\ char_count' = char_count + alpha_count(r.tok)
        /\ \E w \in {clean_word(r.tok)} :
            IF keep_word(w)
            THEN /\ \E n \in {str_len(w)} : max_len' = IF n > max_len THEN n ELSE max_len
                 /\ word_freq' = count_insert(word_freq, w)
            ELSE UNCHANGED <<max_len, word_freq>>
    /\ UNCHANGED <<text, pc, run, prev, heap, iter, top_words, longest_heap, stats_fast>>
    /\ UNCHANGED slowVars

\* The iterator is exhausted: the heap of the top words is created and the
\* iteration over word_freq begins.
ScanEnd ==
    /\ pc = "scan"
    /\ ~split_next(text, pos).some
    /\ pc' = "top"
    /\ pos' = Len(text)
    /\ heap' = {}
    /\ iter' = DOMAIN word_freq
    /\ UNCHANGED <<text, run, prev, word_freq, char_count, max_len, top_words,
                   longest_heap, stats_fast>>
    /\ UNCHANGED slowVars

\* One iteration of the loop over word_freq.iter(); a HashMap yields its
\* entries in an unspecified order.
TopPush ==
    /\ pc = "top"
    /\ \E w \in iter :
        /\ heap' = push_bounded(heap, top_entry(word_freq, w), TopK)
        /\ iter' = iter \ {w}
    /\ UNCHANGED <<text, pc, run, prev, pos, word_freq, char_count, max_len,
                   top_words, longest_heap, stats_fast>>
    /\ UNCHANGED slowVars

\* The loop is over: top_words is collected and sorted, the second heap is
\* created and the iteration over word_freq.keys() begins.
TopCollect ==
    /\ pc = "top"
    /\ iter = {}
    /\ \E order \in into_iter_orders(heap) : top_words' = collect_top(order)
    /\ pc' = "longest"
    /\ longest_heap' = {}
    /\ iter' = DOMAIN word_freq
    /\ UNCHANGED <<text, run, prev, pos, word_freq, char_count, max_len, heap,
                   stats_fast>>
    /\ UNCHANGED slowVars

\* One iteration of the loop over word_freq.keys().
LongestPush ==
    /\ pc = "longest"
    /\ \E w \in iter :
        /\ longest_heap' = push_bounded(longest_heap, longest_entry(w), LongestK)
        /\ iter' = iter \ {w}
    /\ UNCHANGED <<text, pc, run, prev, pos, word_freq, char_count, max_len, heap,
                   top_words, stats_fast>>
    /\ UNCHANGED slowVars

\* The loop is over: longest_words is collected and sorted and the TextStats
\* is returned (time_ms, a clock reading, is left out).
LongestCollect ==
    /\ pc = "longest"
    /\ iter = {}
    /\ \E order \in into_iter_orders(longest_heap) :
        stats_fast' = [word_count |-> Cardinality(DOMAIN word_freq),
                       char_count |-> char_count,
                       top_words |-> top_words,
                       longest_words |-> collect_longest(order)]
    /\ pc' = "done"
    /\ UNCHANGED <<text, run, prev, pos, word_freq, char_count, max_len, heap, iter,
                   top_words, longest_heap>>
    /\ UNCHANGED slowVars

\* A caller calls analyze_text_fast once more on the same text: the locals
\* are those of a new call, with a new HashMap.
CallAgain ==
    /\ pc = "done"
    /\ run = 1
    /\ run' = 2
    /\ prev' = observed(stats_fast)
    /\ pc' = "scan"
    /\ pos' = 0
    /\ word_freq' = EmptyMap
    /\ char_count' = 0
    /\ max_len' = 0
    /\ heap' = {}
    /\ iter' = {}
    /\ top_words' = <<>>
    /\ longest_heap' = {}
    /\ stats_fast' = NoStats
    /\ UNCHANGED text
    /\ UNCHANGED slowVars

\* ------------------------------------------------------ analyze_text_slow

RECURSIVE lines_from(_, _)
\* str::lines from position p on: the text between line feeds, without them;
\* a final empty line is not yielded.
lines_from(s, p) ==
    IF p > Len(s) THEN <<>>
    ELSE LET nl == {i \in p..Len(s) : s[i] = 10}
         IN  IF nl = {} THEN <<SubSeq(s, p, Len(s))>>
             ELSE LET e == CHOOSE i \in nl : \A j \in nl : i <= j
                  IN  <<SubSeq(s, p, e - 1)>> \o lines_from(s, e + 1)

RECURSIVE flatten(_)
flatten(ss) == IF ss = <<>> THEN <<>> ELSE Head(ss) \o flatten(Tail(ss))

\* The words of the nested loops over text.lines() and line.split_whitespace().
slow_tokens(s) ==
    LET ls == lines_from(s, 1)
    IN  flatten([i \in 1..Len(ls) |-> split_whitespace(ls[i], 0)])

\* word.to_lowercase().chars().filter(|c| c.is_alphabetic()).collect()
slow_clean(word) ==
    SelectSeq([i \in 1..Len(word) |-> to_lowercase(word[i])], is_alphabetic)

\* *word_freq.entry(clean_word.clone()).or_insert(0) += 1
slow_insert(wf, w) ==
    IF w \in DOMAIN wf THEN [wf EXCEPT ![w] = @ + 1]
    ELSE [x \in DOMAIN wf \cup {w} |-> IF x = w THEN 0 + 1 ELSE wf[x]]

RECURSIVE slow_count(_, _)
\* word_freq after the words toks, starting from wf.
slow_count(toks, wf) ==
    IF toks = <<>> THEN wf
    ELSE LET w == slow_clean(Head(toks))
         IN  slow_count(Tail(toks), IF w # <<>> THEN slow_insert(wf, w) ELSE wf)

\* all_words: the non-empty clean words, one for each token.
slow_all_words(s) ==
    LET toks == slow_tokens(s)
        cl == [i \in 1..Len(toks) |-> slow_clean(toks[i])]
    IN  SelectSeq(cl, LAMBDA w : w # <<>>)

\* all_words.sort_by(len descending), then the first five.
slow_longest(s) ==
    LET all == slow_all_words(s)
        sorted == sort_by_desc(all, [i \in 1..Len(all) |-> str_len(all[i])])
    IN  SubSeq(sorted, 1, Min(SlowTake, Len(sorted)))

\* The loops over text.lines() and line.chars() that count alphabetic chars.
slow_char_count(s) ==
    LET ls == lines_from(s, 1)
    IN  Len(SelectSeq(flatten(ls), is_alphabetic))

\* The words a round of the 0..10 loop can end with as max_word: the scan
\* keeps the first word of the iteration over word_freq that is not in
\* top_words and whose count exceeds every count before it, so it ends with
\* the first of the not yet found words of greatest count.  The HashMap
\* yields its entries in an unspecified order, the same in every round; each
\* round selects among the words not selected before, so every sequence of
\* such selections is the outcome of one order.
slow_candidates(wf, top) ==
    LET found == {top[i][1] : i \in 1..Len(top)}
        rest == DOMAIN wf \ found
    IN  {w \in rest : \A x \in rest : wf[x] <= wf[w]}

\* analyze_text_slow, lines 12..24: the word frequencies.
SlowCount ==
    /\ pc = "slow_count"
    /\ slow_freq' = slow_count(slow_tokens(text), EmptyMap)
    /\ slow_top' = <<>>
    /\ slow_round' = 0
    /\ pc' = "slow_top"
    /\ UNCHANGED <<text, run, prev, stats_slow>>
    /\ UNCHANGED fastVars

\* One round of the 0..10 loop: the scan for max_word, and the push if
\* max_count > 0 (every count in word_freq is positive, so max_count is 0
\* only when no word is left).
SlowTopRound ==
    /\ pc = "slow_top"
    /\ slow_round < SlowRounds
    /\ slow_round' = slow_round + 1
    /\ IF slow_candidates(slow_freq, slow_top) = {}
       THEN slow_top' = slow_top
       ELSE \E w \in slow_candidates(slow_freq, slow_top) :
                slow_top' = Append(slow_top, <<w, slow_freq[w]>>)
    /\ UNCHANGED <<text, pc, run, prev, slow_freq, stats_slow>>
    /\ UNCHANGED fastVars

\* analyze_text_slow, lines 52..88: char_count, longest_words and the
\* TextStats returned; main goes on to call analyze_text_fast.
SlowFinish ==
    /\ pc = "slow_top"
    /\ slow_round = SlowRounds
    /\ stats_slow' = [word_count |-> Cardinality(DOMAIN slow_freq),
                      char_count |-> slow_char_count(text),
                      top_words |-> slow_top,
                      longest_words |-> slow_longest(text)]
    /\ pc' = "scan"
    /\ UNCHANGED <<text, run, prev, slow_freq, slow_top, slow_round>>
    /\ UNCHANGED fastVars

\* ------------------------------------------------------------------ inputs

\* The chars of the short texts: LF, SPACE, '1', 'A', 'a', E acute, e acute.
ShortAlphabet == {10, 32, 49, 65, 97, 201, 233}

\* Every text of at most MaxLen chars over ShortAlphabet.
ShortTexts == UNION {[1..n -> ShortAlphabet] : n \in 0..MaxLen}

\* The i-th word of the generated texts: the i-th lowercase letter, then 0 to
\* 3 more letters; every fifth word holds an e acute.
GenWord(i) ==
    <<96 + i>> \o [k \in 1..((3 * i) % 4) |-> IF i % 5 = 0 /\ k = 1 THEN 233 ELSE 110 + k]

\* Occurrences of the i-th word in a generated text of which the t + 1
\* rarest words occur once: 1, ..., 1, 2, 3, ...
GenCount(i, t) == IF i <= t + 1 THEN 1 ELSE i - t

\* The j-th occurrence of the i-th word as a token: every second one
\* capitalized, every third one followed by a comma.
GenToken(i, j) ==
    LET w == GenWord(i)
        c == IF j % 2 = 0 THEN [w EXCEPT ![1] = @ - 32] ELSE w
    IN  IF j % 3 = 0 THEN c \o <<44>> ELSE c

\* The whitespace after a token: SPACE, LF or SPACE TAB.
GenSep(k) == IF k % 3 = 0 THEN <<32>> ELSE IF k % 3 = 1 THEN <<10>> ELSE <<32, 9>>

\* The text of n distinct words with t ties; a token without letters, "1,",
\* follows every fourth word.
GenText(n, t) ==
    flatten([i \in 1..n |->
        flatten([j \in 1..GenCount(i, t) |-> GenToken(i, j) \o GenSep(i + j)])
        \o (IF i % 4 = 0 THEN <<49, 44, 32>> ELSE <<>>)])

GenTexts == {GenText(n, t) : n \in 0..MaxWords, t \in 0..MaxTie}

\* ---------------------------------------------------------- specifications

\* A call of analyze_text_fast on any text of the two families.
Init ==
    /\ text \in ShortTexts \cup GenTexts
    /\ pc = "scan"
    /\ run = 1
    /\ prev = observed(NoStats)
    /\ FastEntry
    /\ slow_freq = EmptyMap
    /\ slow_top = <<>>
    /\ slow_round = 0
    /\ stats_slow = NoStats

FastStep ==
    \/ ScanToken
    \/ ScanEnd
    \/ TopPush
    \/ TopCollect
    \/ LongestPush
    \/ LongestCollect

Next ==
    \/ FastStep
    \/ CallAgain

Spec == Init /\ [][Next]_vars

\* One call of analyze_text_fast, from its entry to its return.
SpecOnce == Init /\ [][FastStep]_vars

\* main on a short text: analyze_text_slow, then analyze_text_fast.
InitMain ==
    /\ text \in ShortTexts
    /\ pc = "slow_count"
    /\ run = 1
    /\ prev = observed(NoStats)
    /\ FastEntry
    /\ slow_freq = EmptyMap
    /\ slow_top = <<>>
    /\ slow_round = 0
    /\ stats_slow = NoStats

NextMain ==
    \/ SlowCount
    \/ SlowTopRound
    \/ SlowFinish
    \/ FastStep

SpecMain == InitMain /\ [][NextMain]_vars

\* ------------------------------------------------- vocabulary of the claims

\* The keys of the frequency map.
Keys == DOMAIN word_freq

\* The words of a ranked sequence of (word, count) pairs.
TopSet(tw) == {tw[i][1] : i \in 1..Len(tw)}

\* The words of a sequence of words.
WordSet(lw) == {lw[i] : i \in 1..Len(lw)}

\* s comes before t in lexicographic order.
LexLess(s, t) ==
    \E k \in 1..Len(t) :
        /\ \A i \in 1..(k - 1) : i <= Len(s) /\ s[i] = t[i]
        /\ k > Len(s) \/ s[k] < t[k]

\* e comes before f in the compound order (number, word).
CompoundLess(e, f) == e[1] < f[1] \/ (e[1] = f[1] /\ LexLess(e[2], f[2]))

\* The k greatest entries of S in the compound order (all of S if it has fewer).
GreatestK(S, k) == {e \in S : Cardinality({f \in S : CompoundLess(e, f)}) < k}

\* The positions at which a whitespace-delimited token of s starts.
TokenStarts(s) ==
    {i \in 1..Len(s) : ~is_whitespace(s[i]) /\ (i = 1 \/ is_whitespace(s[i - 1]))}

\* The token of s that starts at i: the maximal run without whitespace.
TokenAt(s, i) ==
    SubSeq(s, i, CHOOSE j \in i..Len(s) :
                    /\ \A k \in i..j : ~is_whitespace(s[k])
                    /\ j = Len(s) \/ is_whitespace(s[j + 1]))

\* The number of alphabetic chars of s.
AlphaChars(s) == Cardinality({i \in 1..Len(s) : is_alphabetic(s[i])})

\* The aggregation pass is over and no later step has run yet.
Aggregated == pc = "top" /\ heap = {} /\ iter = Keys

\* analyze_text_fast has returned.
Returned == pc = "done"

\* --------------------------------------------------------------------- C1

\* C1: top_words has length min(10, word_count), its counts never increase
\* along the sequence, every count in it is at least the count of every key
\* of the frequency map that is not in it, and a text with exactly 10
\* distinct words has all of them in top_words.
C1_TopWords ==
    Returned =>
        LET tw == stats_fast.top_words
            n == Len(tw)
        IN  /\ n = Min(TopK, stats_fast.word_count)
            /\ \A i \in 1..(n - 1) : tw[i][2] >= tw[i + 1][2]
            /\ \A i \in 1..n : \A w \in Keys \ TopSet(tw) : tw[i][2] >= word_freq[w]
            /\ Cardinality(Keys) = TopK => TopSet(tw) = Keys

\* More than 10 distinct words, and a word left out that has the count of the
\* last word of top_words.
C1_Witness ==
    /\ Returned
    /\ Cardinality(Keys) > TopK
    /\ \E w \in Keys \ TopSet(stats_fast.top_words) :
        word_freq[w] = stats_fast.top_words[TopK][2]

\* --------------------------------------------------------------------- C2

C4_CharCount ==
    /\ (pc \in {"top", "longest", "done"}) => char_count = AlphaChars(text)
    /\ Returned => stats_fast.char_count = AlphaChars(text)

\* Letters are counted in a text that also holds a char that is neither a
\* letter nor whitespace.
C4_Witness ==
    /\ Returned
    /\ stats_fast.char_count >= 2
    /\ \E i \in 1..Len(text) : ~is_alphabetic(text[i]) /\ ~is_whitespace(text[i])

\* --------------------------------------------------------------------- C5

\* C5: the normalized word of every token is the token's alphabetic chars,
\* each in lowercase, in their order: every such non-empty word is a key of
\* the frequency map, and two tokens that differ in letter case and in
\* non-alphabetic chars only are counted as the same word.
C5_Lowercase ==
    Aggregated =>
        LET starts == TokenStarts(text)
            lower(t) == LET kept == SelectSeq(t, is_alphabetic)
                        IN  [i \in 1..Len(kept) |-> to_lowercase(kept[i])]
        IN  /\ \A i \in starts :
                lower(TokenAt(text, i)) # <<>> => lower(TokenAt(text, i)) \in Keys
            /\ \A i, j \in starts :
                lower(TokenAt(text, i)) = lower(TokenAt(text, j))
                    => clean_word(TokenAt(text, i)) = clean_word(TokenAt(text, j))

\* --------------------------------------------------------------------- C6

\* C6: a second call on the same text returns the word_count, the char_count,
\* the set of words of top_words and the set of words of longest_words that
\* the first call returned, whatever the iteration orders of the two maps.
C6_SameObserved == (Returned /\ run = 2) => observed(stats_fast) = prev

\* The second call has returned on a text of more than 10 distinct words, of
\* which one left out of top_words ties with one in it, and one left out of
\* longest_words is as long as one in it.
C6_Witness ==
    /\ Returned
    /\ run = 2
    /\ Cardinality(Keys) > TopK
    /\ \E w \in Keys \ TopSet(stats_fast.top_words) :
        \E i \in 1..Len(stats_fast.top_words) :
            stats_fast.top_words[i][2] = word_freq[w]
    /\ \E w \in Keys \ WordSet(stats_fast.longest_words) :
        \E i \in 1..Len(stats_fast.longest_words) :
            str_len(stats_fast.longest_words[i]) = str_len(w)

\* --------------------------------------------------------------------- C7

\* C7: wherever analyze_text_fast has not returned it has a next step to
\* take (no step of it can fail), and for a text without alphabetic chars it
\* returns word_count 0, char_count 0 and two empty sequences.
C7_NeverFails ==
    /\ ~Returned => ENABLED FastStep
    /\ (Returned /\ AlphaChars(text) = 0) => stats_fast = NoStats

\* The call has returned on a text that holds a token and no letter.
C7_Witness ==
    /\ Returned
    /\ AlphaChars(text) = 0
    /\ TokenStarts(text) # {}

\* --------------------------------------------------------------------- C8

\* C8: every entry of top_words is a key of the frequency map with that key's
\* count, every entry of longest_words is a key, and no word occurs twice in
\* top_words or twice in longest_words.
C8_EntriesAreKeys ==
    Returned =>
        LET tw == stats_fast.top_words
            lw == stats_fast.longest_words
        IN  /\ \A i \in 1..Len(tw) : tw[i][1] \in Keys /\ tw[i][2] = word_freq[tw[i][1]]
            /\ \A i \in 1..Len(lw) : lw[i] \in Keys
            /\ \A i, j \in 1..Len(tw) : tw[i][1] = tw[j][1] => i = j
            /\ \A i, j \in 1..Len(lw) : lw[i] = lw[j] => i = j

\* Both sequences are full and a word that occurs more than once in the text
\* is in both.
C8_Witness ==
    /\ Returned
    /\ Len(stats_fast.top_words) = TopK
    /\ Len(stats_fast.longest_words) = LongestK
    /\ \E w \in TopSet(stats_fast.top_words) \cap WordSet(stats_fast.longest_words) :
        word_freq[w] >= 2

\* --------------------------------------------------------------------- C9

\* C9: after every iteration of a selection loop the heap holds min(K, i)
\* entries, i being the number of keys the loop has processed, and they are
\* the greatest of the processed entries in the compound order (count, word),
\* (length, word) in the second loop; a processed word left out that ties
\* with an entry of the heap comes before that entry's word in lexicographic
\* order.
C9_BoundedHeap ==
    /\ pc = "top" =>
        LET done == Keys \ iter
            entries == {<<word_freq[w], w>> : w \in done}
        IN  /\ Cardinality(heap) = Min(TopK, Cardinality(done))
            /\ heap = GreatestK(entries, TopK)
            /\ \A e \in entries \ heap : \A f \in heap :
                e[1] = f[1] => LexLess(e[2], f[2])
    /\ pc = "longest" =>
        LET done == Keys \ iter
            entries == {<<str_len(w), w>> : w \in done}
        IN  /\ Cardinality(longest_heap) = Min(LongestK, Cardinality(done))
            /\ longest_heap = GreatestK(entries, LongestK)
            /\ \A e \in entries \ longest_heap : \A f \in longest_heap :
                e[1] = f[1] => LexLess(e[2], f[2])

\* The second loop has evicted a word as long as one it holds, after the
\* first loop evicted a word with the count of one it holds.
C9_Witness ==
    /\ pc = "longest"
    /\ \E w \in Keys : \E f \in heap : <<word_freq[w], w>> \notin heap /\ f[1] = word_freq[w]
    /\ \E w \in Keys \ iter : \E f \in longest_heap :
        <<str_len(w), w>> \notin longest_heap /\ f[1] = str_len(w)

\* -------------------------------------------------------------------- C10

\* C10: on the same text analyze_text_slow and analyze_text_fast return the
\* same word_count, the same char_count, the same sequence of counts in
\* top_words and longest_words of the same length with the same sequence of
\* word lengths.
C10_SlowEqualsFast ==
    Returned =>
        LET st == stats_slow.top_words
            ft == stats_fast.top_words
            sl == stats_slow.longest_words
            fl == stats_fast.longest_words
        IN  /\ stats_slow.word_count = stats_fast.word_count
            /\ stats_slow.char_count = stats_fast.char_count
            /\ [i \in 1..Len(st) |-> st[i][2]] = [i \in 1..Len(ft) |-> ft[i][2]]
            /\ Len(sl) = Len(fl)
            /\ [i \in 1..Len(sl) |-> str_len(sl[i])] = [i \in 1..Len(fl) |-> str_len(fl[i])]

====
